---------------------------- MODULE Spec2Model ----------------------------
(***************************************************************************)
(* A model of matrix-appservice-rs: the MappingDict of mappingdict.rs and  *)
(* the two converters of convert.rs (to_external, to_matrix) and           *)
(* mxc_to_url of matrix.rs.                                                *)
(*                                                                         *)
(* Four specifications share the module, one per component:                *)
(*   Spec            MappingDict: insert / remove, with get / has / iter   *)
(*                   as operators over the current state                   *)
(*   SpecToExternal  to_external::convert, one markup token per step       *)
(*   SpecToMatrix    to_matrix::build_regex and to_matrix::convert, one    *)
(*                   capture per step                                      *)
(*   SpecMxc         mxc_to_url, one call per behaviour                    *)
(***************************************************************************)
EXTENDS Integers, Sequences, FiniteSets, TLC

VARIABLES
    \* ---- MappingDict (mappingdict.rs) ----
    items,              \* Vec<V>
    matrix_to_index,    \* HashMap<V::MatrixType, usize>
    external_to_index,  \* HashMap<V::ExternalType, usize>
    dictPanicked,       \* a call on the dict has panicked (Vec::remove out of range)
    lastOp,             \* the last call made on the dict and what it returned
    live,               \* history: the records inserted and not since removed by a caller
    usedIds,            \* history: the identifiers of every record ever inserted
    collisionFree,      \* history: no two inserted records shared an identifier
    nInserts,           \* history: the number of insert calls made
    \* ---- to_matrix (convert.rs) ----
    mxMap,              \* Info.map: HashMap<String, MatrixToItem>
    regex,              \* BuiltRegex: the alternatives of the pattern, in order
    s_cloned,           \* the input text, which the captures are found on
    s,                  \* the buffer the replacements are made in
    delta,              \* the length the replacements made so far have added
    last_end,           \* the captures iterator: where the next search starts
    last_match,         \* the captures iterator: where the last match ended
    mxPc,               \* "idle", "start", "convert", "done" or "panicked"
    nCaptures,          \* history: the number of captures replaced
    \* ---- to_external (convert.rs) ----
    html,               \* the input markup, as the tokens the rewriter reads
    info,               \* Info: user_mapper, room_mapper, element_handlers
    pos,                \* the number of tokens the rewriter has consumed
    open,               \* the stack of open elements, innermost last
    out,                \* the output written so far
    extPc,              \* "idle", "run", "done" or "panicked"
    calls,              \* history: the resolver and custom handler calls made
    emitted,            \* history: per token consumed, whether output was on
                        \* and what was written for it
    \* ---- mxc_to_url (matrix.rs) ----
    homeserver_url,     \* the homeserver_url argument
    mxc_uri,            \* the mxc_uri argument
    mxcRes,             \* the Result returned
    mxcPc               \* "idle", "start", "done" or "panicked"

dictVars == <<items, matrix_to_index, external_to_index, dictPanicked, lastOp,
              live, usedIds, collisionFree, nInserts>>

mxVars == <<mxMap, regex, s_cloned, s, delta, last_end, last_match, mxPc, nCaptures>>

extVars == <<html, info, pos, open, out, extPc, calls, emitted>>

urlVars == <<homeserver_url, mxc_uri, mxcRes, mxcPc>>

vars == <<dictVars, mxVars, extVars, urlVars>>

-----------------------------------------------------------------------------
(* Bounds *)

\* identifiers of either kind are 1..MaxIds
MaxIds == 3
\* at most this many insert calls in one behaviour
MaxInserts == 3
\* the input text of to_matrix::convert has at most this many characters
MaxTextLen == 5
\* the name table of to_matrix has at most this many names
MaxNames == 2
\* the input markup of to_external::convert has at most this many tokens
MaxTokens == 4

-----------------------------------------------------------------------------
(* Option<T>: None is the empty sequence, Some(x) the one-element sequence *)

None == <<>>
Some(x) == <<x>>
Unwrap(o) == o[1]

-----------------------------------------------------------------------------
(* MappingDict *)

MatrixIds == 1..MaxIds
ExternalIds == 1..MaxIds

\* A Mappable: one Matrix identifier and one external identifier.
Records == [m : MatrixIds, e : ExternalIds]

\* MappingId: External(&E) or Matrix(&M)
MappingIds == [kind : {"Matrix", "External"}, key : 1..MaxIds]
Matrix(k) == [kind |-> "Matrix", key |-> k]
External(k) == [kind |-> "External", key |-> k]

\* a map insertion that keeps the value a key already has
MapInsertKeepsOld(map, k, v) ==
    [x \in (DOMAIN map) \cup {k} |-> IF x \in DOMAIN map THEN map[x] ELSE v]

\* HashMap::insert, HashMap::remove and HashMap::get on a map kept as a function
MapInsert(map, k, v) == [x \in (DOMAIN map) \cup {k} |-> IF x = k THEN v ELSE map[x]]
MapRemove(map, k) == [x \in (DOMAIN map) \ {k} |-> map[x]]
MapGet(map, k) == IF k \in DOMAIN map THEN Some(map[k]) ELSE None
EmptyMap == [x \in {} |-> 0]

\* Vec::remove(index) for an index in range: the later elements shift left by one.
\* Indices are zero-based as in the source; items[i + 1] is the element at index i.
VecRemove(v, index) ==
    [j \in 1..(Len(v) - 1) |-> IF j <= index THEN v[j] ELSE v[j + 1]]

\* Vec::get(index)
VecGet(v, index) == IF index < Len(v) THEN Some(v[index + 1]) ELSE None

\* the lookup of the index in get, get_mut and remove
IndexOf(identifier) ==
    IF identifier.kind = "Matrix"
    THEN MapGet(matrix_to_index, identifier.key)
    ELSE MapGet(external_to_index, identifier.key)

\* MappingDict::get
Get(identifier) ==
    LET index == IndexOf(identifier)
    IN  IF index = None THEN None ELSE VecGet(items, Unwrap(index))

\* MappingDict::has
Has(identifier) ==
    IF identifier.kind = "Matrix"
    THEN identifier.key \in DOMAIN matrix_to_index
    ELSE identifier.key \in DOMAIN external_to_index

\* MappingDict::iter
Iter == items

\* whether a record carries the identifier
Carries(r, identifier) ==
    IF identifier.kind = "Matrix" THEN r.m = identifier.key ELSE r.e = identifier.key

\* history: the live records once a caller has removed by `identifier`. The
\* record an identifier stands for is the last one inserted under it.
RECURSIVE DropLast(_, _)
DropLast(recs, identifier) ==
    IF recs = <<>> THEN <<>>
    ELSE IF Carries(recs[Len(recs)], identifier) THEN SubSeq(recs, 1, Len(recs) - 1)
    ELSE Append(DropLast(SubSeq(recs, 1, Len(recs) - 1), identifier), recs[Len(recs)])

\* history: the live record a caller's `identifier` stands for, if any
RECURSIVE Designated(_, _)
Designated(recs, identifier) ==
    IF recs = <<>> THEN None
    ELSE IF Carries(recs[Len(recs)], identifier) THEN Some(recs[Len(recs)])
    ELSE Designated(SubSeq(recs, 1, Len(recs) - 1), identifier)

\* MappingDict::new
DictInit ==
    /\ items = <<>>
    /\ matrix_to_index = EmptyMap
    /\ external_to_index = EmptyMap
    /\ dictPanicked = FALSE
    /\ lastOp = [op |-> "new"]
    /\ live = <<>>
    /\ usedIds = [m |-> {}, e |-> {}]
    /\ collisionFree = TRUE
    /\ nInserts = 0

\* MappingDict::insert
Insert(item) ==
    /\ ~dictPanicked
    /\ nInserts < MaxInserts
    \* identifiers are only hashed and compared, so a new one is the least unused
    /\ item.m <= Cardinality(usedIds.m) + 1
    /\ item.e <= Cardinality(usedIds.e) + 1
    /\ LET index == Len(items)
       IN  /\ matrix_to_index' = MapInsert(matrix_to_index, item.m, index)
           /\ external_to_index' = MapInsert(external_to_index, item.e, index)
           /\ items' = Append(items, item)
           /\ lastOp' = [op |-> "insert", item |-> item]
    /\ live' = Append(live, item)
    /\ usedIds' = [m |-> usedIds.m \cup {item.m}, e |-> usedIds.e \cup {item.e}]
    /\ collisionFree' = (collisionFree /\ item.m \notin usedIds.m /\ item.e \notin usedIds.e)
    /\ nInserts' = nInserts + 1
    /\ UNCHANGED dictPanicked

\* MappingDict::remove, the identifier absent from its map: returns None
RemoveAbsent(identifier) ==
    /\ ~dictPanicked
    /\ IndexOf(identifier) = None
    /\ lastOp' = [op |-> "remove", identifier |-> identifier, ret |-> None,
                  target |-> Designated(live, identifier)]
    /\ live' = DropLast(live, identifier)
    /\ UNCHANGED <<items, matrix_to_index, external_to_index, dictPanicked,
                   usedIds, collisionFree, nInserts>>

\* MappingDict::remove, the identifier present and its index within items
RemovePresent(identifier) ==
    /\ ~dictPanicked
    /\ IndexOf(identifier) # None
    /\ LET id == Unwrap(IndexOf(identifier))
       IN  /\ id < Len(items)
           /\ LET item == items[id + 1]
              IN  /\ items' = VecRemove(items, id)
                  /\ IF identifier.kind = "Matrix"
                     THEN /\ matrix_to_index' = MapRemove(matrix_to_index, identifier.key)
                          /\ external_to_index' = MapRemove(external_to_index, item.e)
                     ELSE /\ external_to_index' = MapRemove(external_to_index, identifier.key)
                          /\ matrix_to_index' = MapRemove(matrix_to_index, item.m)
                  /\ lastOp' = [op |-> "remove", identifier |-> identifier,
                                ret |-> Some(item),
                                target |-> Designated(live, identifier)]
    /\ live' = DropLast(live, identifier)
    /\ UNCHANGED <<dictPanicked, usedIds, collisionFree, nInserts>>

\* MappingDict::remove, the identifier present and its index past the end of
\* items: the entry has left its map when Vec::remove panics
RemovePanics(identifier) ==
    /\ ~dictPanicked
    /\ IndexOf(identifier) # None
    /\ Unwrap(IndexOf(identifier)) >= Len(items)
    /\ IF identifier.kind = "Matrix"
       THEN /\ matrix_to_index' = MapRemove(matrix_to_index, identifier.key)
            /\ UNCHANGED external_to_index
       ELSE /\ external_to_index' = MapRemove(external_to_index, identifier.key)
            /\ UNCHANGED matrix_to_index
    /\ dictPanicked' = TRUE
    /\ lastOp' = [op |-> "remove", identifier |-> identifier, ret |-> None,
                  target |-> Designated(live, identifier)]
    /\ live' = DropLast(live, identifier)
    /\ UNCHANGED <<items, usedIds, collisionFree, nInserts>>

-----------------------------------------------------------------------------
(* to_matrix: text of the external system to Matrix markup *)

\* Text is a sequence of one-character strings. \W of the pattern is any
\* character that is not a word character.
WordChars == {"a", "b", "h", "r", "e", "f", "m", "t", "i", "x", "o", "p", "s", "u", "g"}
IsWord(c) == c \in WordChars
TextChars == {"a", "b", " "}

RECURSIVE SeqsUpTo(_, _)
SeqsUpTo(S, n) ==
    IF n = 0 THEN {<<>>}
    ELSE LET shorter == SeqsUpTo(S, n - 1)
         IN  shorter \cup {Append(t, c) : t \in {u \in shorter : Len(u) = n - 1}, c \in S}

Texts == SeqsUpTo(TextChars, MaxTextLen)

\* the names a table may hold
NameUniverse == { <<"a">>, <<"b">>, <<"a", "b">>, <<"a", " ", "b">> }

\* MatrixToItem
UserItem == [kind |-> "User", slug |-> <<"@", "u", ":", "h">>]
EventItem == [kind |-> "Event", slug |-> <<"!", "r", ":", "h", "/", "$", "e">>]
MatrixToItems == {UserItem, EventItem}

\* the tables: a function from at most MaxNames names to items
NameTables ==
    UNION { [names -> MatrixToItems] :
            names \in {n \in SUBSET NameUniverse : Cardinality(n) <= MaxNames} }

\* MatrixToItem::to_url_string
MatrixToPrefix ==
    <<"h", "t", "t", "p", "s", ":", "/", "/", "m", "a", "t", "r", "i", "x", ".",
      "t", "o", "/", "#", "/">>
ToUrlString(item) == MatrixToPrefix \o item.slug

\* format!("<a href=\"{}\">{}</a>", to, name)
FormatAnchor(to, name) ==
    <<"<", "a", " ", "h", "r", "e", "f", "=", "\"">> \o to \o <<"\"", ">">>
        \o name \o <<"<", "/", "a", ">">>

\* the orders a HashMap of these keys may iterate in
Orders(keys) ==
    {o \in [1..Cardinality(keys) -> keys] : \A i, j \in DOMAIN o : i # j => o[i] # o[j]}

\* build_regex: (?<=^|\W)(k1|k2|...)(?=$|\W), the keys in the map's iteration
\* order. With no key the group is (), which matches the empty string.
BuildAlternatives(order) == IF order = <<>> THEN << <<>> >> ELSE order

\* (?<=^|\W) at offset i of text (offsets are zero-based)
LookBehind(text, i) == i = 0 \/ ~IsWord(text[i])
\* (?=$|\W) at offset i of text
LookAhead(text, i) == i = Len(text) \/ ~IsWord(text[i + 1])
\* the literal alternative alt at offset i of text
LiteralAt(text, alt, i) ==
    /\ i + Len(alt) <= Len(text)
    /\ \A k \in 1..Len(alt) : text[i + k] = alt[k]

\* the pattern at offset i: the first alternative, in order, that matches there
\* with the look-ahead after it; None if there is none
RECURSIVE FirstAlt(_, _, _, _)
FirstAlt(text, alts, i, k) ==
    IF k > Len(alts) THEN None
    ELSE IF LiteralAt(text, alts[k], i) /\ LookAhead(text, i + Len(alts[k]))
         THEN Some([start |-> i, end |-> i + Len(alts[k])])
         ELSE FirstAlt(text, alts, i, k + 1)

MatchAt(text, alts, i) ==
    IF LookBehind(text, i) THEN FirstAlt(text, alts, i, 1) ELSE None

\* Regex::captures_read_at: the leftmost match starting at or after `from`
RECURSIVE FindAt(_, _, _)
FindAt(text, alts, from) ==
    IF from > Len(text) THEN None
    ELSE IF MatchAt(text, alts, from) # None THEN MatchAt(text, alts, from)
    ELSE FindAt(text, alts, from + 1)

\* String::replace_range(start..end, with)
ReplaceRange(str, start, end, with) ==
    SubSeq(str, 1, start) \o with \o SubSeq(str, end + 1, Len(str))

\* the bytes of a match
MatchBytes(text, m) == SubSeq(text, m.start + 1, m.end)

\* the text convert searches for captures
Subject == s_cloned

\* (a slip: the change of length is assigned, not accumulated)
NextDeltaNotAccumulated(d, toLen, start, end) == toLen - (end - start)

\* delta after a replacement of end - start characters by a text of length toLen
NextDelta(d, toLen, start, end) == d + toLen - (end - start)

MxInit ==
    /\ mxMap \in NameTables
    /\ s_cloned \in Texts
    /\ s = s_cloned
    /\ regex = None
    /\ delta = 0
    /\ last_end = 0
    /\ last_match = None
    /\ mxPc = "start"
    /\ nCaptures = 0

\* build_regex(&info), the map iterating in `order`
BuildRegex(order) ==
    /\ mxPc = "start"
    /\ regex' = Some(BuildAlternatives(order))
    /\ mxPc' = "convert"
    /\ UNCHANGED <<mxMap, s_cloned, s, delta, last_end, last_match, nCaptures>>

\* what CaptureMatches::next looks at: the next match of the pattern in the
\* subject from last_end on, None once last_end is past the end
NextCapture ==
    IF last_end > Len(Subject) THEN None
    ELSE FindAt(Subject, Unwrap(regex), last_end)

\* one turn of the loop of convert: the iterator yields a capture, which is
\* replaced in s
ConvertCapture ==
    /\ mxPc = "convert"
    /\ NextCapture # None
    /\ LET m == Unwrap(NextCapture)
           empty == m.start = m.end
           skipped == empty /\ Some(m.end) = last_match
           name == MatchBytes(Subject, m)
       IN  /\ last_end' = IF empty THEN m.end + 1 ELSE m.end
           /\ IF skipped
              THEN \* an empty match right after a match: the iterator moves on
                   UNCHANGED <<s, delta, last_match, mxPc, nCaptures>>
              ELSE /\ last_match' = Some(m.end)
                   /\ IF name \in DOMAIN mxMap
                      THEN LET to == FormatAnchor(ToUrlString(mxMap[name]), name)
                               start == m.start + delta
                               end == m.end + delta
                           IN  /\ s' = ReplaceRange(s, start, end, to)
                               /\ delta' = NextDelta(delta, Len(to), start, end)
                               /\ nCaptures' = nCaptures + 1
                               /\ UNCHANGED mxPc
                      ELSE \* info.map.get(name).unwrap() on None
                           /\ mxPc' = "panicked"
                           /\ UNCHANGED <<s, delta, nCaptures>>
    /\ UNCHANGED <<mxMap, regex, s_cloned>>

\* the iterator is exhausted: convert returns s
ConvertReturn ==
    /\ mxPc = "convert"
    /\ NextCapture = None
    /\ mxPc' = "done"
    /\ UNCHANGED <<mxMap, regex, s_cloned, s, delta, last_end, last_match, nCaptures>>

\* the converter at rest, in the specifications of the other components
MxIdle ==
    /\ mxMap = <<>>
    /\ s_cloned = <<>>
    /\ s = <<>>
    /\ regex = None
    /\ delta = 0
    /\ last_end = 0
    /\ last_match = None
    /\ mxPc = "idle"
    /\ nCaptures = 0

-----------------------------------------------------------------------------
(* to_external: Matrix markup to text of the external system *)

\* ---- the input: tokens of well-formed markup ----

StartTag(tag, href) == [type |-> "start", tag |-> tag, href |-> href, text |-> <<>>]
EndTag(tag) == [type |-> "end", tag |-> tag, href |-> None, text |-> <<>>]
Text(t) == [type |-> "text", tag |-> "", href |-> None, text |-> t]
Comment(t) == [type |-> "comment", tag |-> "", href |-> None, text |-> t]

UserIdText == <<"@", "u", ":", "h">>
RoomAliasText == <<"#", "r", ":", "h">>

\* the href attributes of the anchors of the input: none, a link that is no
\* mention, a user, a room alias, a user and a room alias that do not parse,
\* and a mention under another sigil
Hrefs ==
    { None,
      Some(<<"g", ".", "n", "l">>),
      Some(MatrixToPrefix \o UserIdText),
      Some(MatrixToPrefix \o RoomAliasText),
      Some(MatrixToPrefix \o <<"@", "u">>),
      Some(MatrixToPrefix \o <<"#", "r">>),
      Some(MatrixToPrefix \o <<"!", "r", ":", "h">>) }

OtherTags == {"em", "body"}
Openers == {StartTag("a", h) : h \in Hrefs} \cup {StartTag(t, None) : t \in OtherTags}
Leaves == {Text(<<"x">>), Text(<<"y">>), Comment(<<"c">>)}

\* the well-formed token sequences of exactly n tokens
RECURSIVE Forests(_)
Forests(n) ==
    IF n = 0 THEN {<<>>}
    ELSE {<<l>> \o f : l \in Leaves, f \in Forests(n - 1)}
         \cup UNION { UNION { {<<o>> \o inner \o <<EndTag(o.tag)>> \o rest :
                                  inner \in Forests(k), rest \in Forests(n - 2 - k)} :
                              o \in Openers } :
                      k \in 0..(n - 2) }

Documents == UNION {Forests(n) : n \in 0..MaxTokens}

\* ---- Info ----

\* the custom handlers of the tests: el.replace("test"); el.remove(); and
\* prepend("*"), remove_and_keep_content(), append("*")
HandlerKinds == {"replace", "remove", "wrap"}

UserMappers == {EmptyMap, UserIdText :> <<"t", "o", "m">>}
RoomMappers == {EmptyMap, RoomAliasText :> <<"t", "o", "m", "s", "g">>}
ElementHandlers ==
    UNION { [tags -> HandlerKinds] : tags \in SUBSET {"a", "em"} }

Infos == [user_mapper : UserMappers, room_mapper : RoomMappers,
          element_handlers : ElementHandlers]

\* ---- lol_html's Element: the mutations a handler records on the start tag,
\* the content and the end tag of the element it is given ----

NewElement(token) ==
    [tag |-> token.tag, href |-> token.href,
     start_removed |-> FALSE, start_replacement |-> <<>>, start_after |-> <<>>,
     remove_content |-> FALSE,
     end_before |-> <<>>, end_removed |-> FALSE]

\* Element::prepend(content, ContentType::Html)
Prepend(el, content) == [el EXCEPT !.start_after = content \o @]
\* Element::append(content, ContentType::Html)
ElAppend(el, content) == [el EXCEPT !.end_before = @ \o content]
\* Element::remove_and_keep_content()
RemoveAndKeepContent(el) == [el EXCEPT !.start_removed = TRUE, !.end_removed = TRUE]
\* Element::remove()
ElRemove(el) ==
    [el EXCEPT !.start_removed = TRUE, !.end_removed = TRUE,
               !.start_after = <<>>, !.end_before = <<>>, !.remove_content = TRUE]
\* Element::replace(content, ContentType::Html)
ElReplace(el, content) ==
    [el EXCEPT !.start_removed = TRUE, !.start_replacement = content,
               !.end_removed = TRUE,
               !.start_after = <<>>, !.end_before = <<>>, !.remove_content = TRUE]

\* a tag as the input holds it
RawStart(token) ==
    IF token.href = None THEN <<"<", token.tag, ">">>
    ELSE <<"<", token.tag, " href=\"">> \o Unwrap(token.href) \o <<"\"", ">">>
RawEnd(token) == <<"</", token.tag, ">">>
RawComment(token) == <<"<!--">> \o token.text \o <<"-->">>

\* what the rewriter writes for a start tag and for an end tag
SerializeStart(el, token) ==
    (IF el.start_removed THEN el.start_replacement ELSE RawStart(token)) \o el.start_after
SerializeEnd(el, token) ==
    el.end_before \o (IF el.end_removed THEN <<>> ELSE RawEnd(token))

\* ---- the handlers of convert ----

\* A handler runs on a context: the element, the calls made so far and
\* whether an unwrap() has panicked.
NewContext(token) == [el |-> NewElement(token), calls |-> <<>>, panicked |-> FALSE]

\* a custom handler of info.element_handlers called on the element
CallHandler(ctx, kind) ==
    [ctx EXCEPT
        !.el = CASE kind = "replace" -> ElReplace(@, <<"t", "e", "s", "t">>)
                 [] kind = "remove" -> ElRemove(@)
                 [] kind = "wrap" ->
                        ElAppend(RemoveAndKeepContent(Prepend(@, <<"*">>)), <<"*">>),
        !.calls = Append(@, [fn |-> "handler", arg |-> ctx.el.tag])]

\* (a slip: the link is never written around the kept text)
DefaultAnchorNoLink(el, url) == RemoveAndKeepContent(el)

\* the None arm of the closure `normal`: the anchor is unwrapped and, with a
\* url, its content is put between "[" and "](url)"
DefaultAnchor(el, url) ==
    LET kept == RemoveAndKeepContent(el)
    IN  IF url = None THEN kept
        ELSE ElAppend(Prepend(kept, <<"[">>), <<"](">> \o Unwrap(url) \o <<")">>)

\* the closure `normal` of stringify_a_tag
Normal(ctx, url) ==
    IF "a" \in DOMAIN info.element_handlers
    THEN CallHandler(ctx, info.element_handlers["a"])
    ELSE [ctx EXCEPT !.el = DefaultAnchor(@, url)]

\* str::strip_prefix("https://matrix.to/#/")
StripPrefix(href) ==
    IF /\ Len(href) >= Len(MatrixToPrefix)
       /\ SubSeq(href, 1, Len(MatrixToPrefix)) = MatrixToPrefix
    THEN Some(SubSeq(href, Len(MatrixToPrefix) + 1, Len(href)))
    ELSE None

\* UserId::try_from and RoomAliasId::try_from succeed on sigil, localpart,
\* a colon and a server name
ParsesAsId(text, sigil) ==
    /\ Len(text) >= 1
    /\ text[1] = sigil
    /\ \E i \in 2..(Len(text) - 1) : text[i] = ":"

\* a resolver called with an identifier
CallMapper(ctx, fn, id) == [ctx EXCEPT !.calls = Append(@, [fn |-> fn, arg |-> id])]

\* (a slip: the display string is put before the content, which stays)
MentionedPrepended(el, display) == Prepend(el, display)

\* el.replace(&s, ContentType::Html) for the display string a resolver returned
Mentioned(el, display) == ElReplace(el, display)

\* stringify_a_tag, from the match on the first character of `mentioned` on
Mention(ctx, href, mentioned) ==
    LET first == IF mentioned = <<>> THEN "" ELSE mentioned[1]
    IN  CASE first = "@" ->
                IF ~ParsesAsId(mentioned, "@") THEN [ctx EXCEPT !.panicked = TRUE]
                ELSE LET called == CallMapper(ctx, "user_mapper", mentioned)
                         found == MapGet(info.user_mapper, mentioned)
                     IN  IF found # None
                         THEN [called EXCEPT !.el = Mentioned(@, Unwrap(found))]
                         ELSE Normal(called, Some(href))
          [] first = "#" ->
                IF ~ParsesAsId(mentioned, "#") THEN [ctx EXCEPT !.panicked = TRUE]
                ELSE LET called == CallMapper(ctx, "room_mapper", mentioned)
                         found == MapGet(info.room_mapper, mentioned)
                     IN  IF found # None
                         THEN [called EXCEPT !.el = Mentioned(@, Unwrap(found))]
                         ELSE Normal(called, Some(href))
          [] OTHER -> Normal(ctx, Some(href))

\* stringify_a_tag
StringifyATag(ctx) ==
    IF ctx.el.href = None THEN Normal(ctx, None)
    ELSE LET href == Unwrap(ctx.el.href)
         IN  IF StripPrefix(href) = None THEN Normal(ctx, Some(href))
             ELSE Mention(ctx, href, Unwrap(StripPrefix(href)))

\* (a slip: the element goes with its content)
UnhandledRemoved(el) == ElRemove(el)

\* what the handler registered under "*" does to an element no custom
\* handler is registered for
Unhandled(el) == RemoveAndKeepContent(el)

\* the element handler registered under the selector "*"
StarHandler(ctx) ==
    LET tag == ctx.el.tag
    IN  IF tag \in DOMAIN info.element_handlers
        THEN CallHandler(ctx, info.element_handlers[tag])
        ELSE [ctx EXCEPT !.el = Unhandled(@)]

\* the element handlers of convert that match a start tag, run in the order
\* they are registered in: "a" before "*"
RunElementHandlers(token) ==
    LET first == IF token.tag = "a" THEN StringifyATag(NewContext(token))
                 ELSE NewContext(token)
    IN  IF first.panicked THEN first ELSE StarHandler(first)

\* ---- the rewriter ----

\* content is written unless an open element has had its content removed
Emitting(stack) == \A i \in 1..Len(stack) : ~stack[i].remove_content

\* the comment handler, registered under the selector "body", sees the
\* comments inside an open body element
InBody(stack) == \E i \in 1..Len(stack) : stack[i].tag = "body"

ExtInit ==
    /\ html \in Documents
    /\ info \in Infos
    /\ pos = 0
    /\ open = <<>>
    /\ out = <<>>
    /\ extPc = "run"
    /\ calls = <<>>
    /\ emitted = <<>>

Token == html[pos + 1]

\* the rewriter writes `text` for the token it has read, if output is on
Write(on, text) ==
    /\ out' = IF on THEN out \o text ELSE out
    /\ emitted' = Append(emitted, [on |-> on, text |-> IF on THEN text ELSE <<>>])

\* the rewriter reads a start tag: the matching element handlers run, and the
\* tag is written as they left it
OnStartTag ==
    /\ extPc = "run"
    /\ pos < Len(html)
    /\ Token.type = "start"
    /\ LET ctx == RunElementHandlers(Token)
       IN  /\ ~ctx.panicked
           /\ calls' = calls \o [i \in 1..Len(ctx.calls) |->
                                    [fn |-> ctx.calls[i].fn, arg |-> ctx.calls[i].arg,
                                     at |-> pos + 1]]
           /\ open' = Append(open, ctx.el)
           /\ Write(Emitting(open), SerializeStart(ctx.el, Token))
    /\ pos' = pos + 1
    /\ UNCHANGED <<html, info, extPc>>

\* the rewriter reads the start tag of an anchor whose handler panics: an
\* unwrap() of an identifier that does not parse
OnStartTagPanics ==
    /\ extPc = "run"
    /\ pos < Len(html)
    /\ Token.type = "start"
    /\ RunElementHandlers(Token).panicked
    /\ extPc' = "panicked"
    /\ UNCHANGED <<html, info, pos, open, out, calls, emitted>>

\* the rewriter reads an end tag: it closes the innermost open element
OnEndTag ==
    /\ extPc = "run"
    /\ pos < Len(html)
    /\ Token.type = "end"
    /\ LET el == open[Len(open)]
           rest == SubSeq(open, 1, Len(open) - 1)
       IN  /\ open' = rest
           /\ Write(Emitting(rest), SerializeEnd(el, Token))
    /\ pos' = pos + 1
    /\ UNCHANGED <<html, info, extPc, calls>>

\* the rewriter reads text
OnText ==
    /\ extPc = "run"
    /\ pos < Len(html)
    /\ Token.type = "text"
    /\ Write(Emitting(open), Token.text)
    /\ pos' = pos + 1
    /\ UNCHANGED <<html, info, open, extPc, calls>>

\* the rewriter reads a comment: c.remove() inside a body element
OnComment ==
    /\ extPc = "run"
    /\ pos < Len(html)
    /\ Token.type = "comment"
    /\ Write(Emitting(open), IF InBody(open) THEN <<>> ELSE RawComment(Token))
    /\ pos' = pos + 1
    /\ UNCHANGED <<html, info, open, extPc, calls>>

\* the input is consumed: convert returns Ok(out)
ExtReturn ==
    /\ extPc = "run"
    /\ pos = Len(html)
    /\ extPc' = "done"
    /\ UNCHANGED <<html, info, pos, open, out, calls, emitted>>

\* the converter at rest, in the specifications of the other components
ExtIdle ==
    /\ html = <<>>
    /\ info = [user_mapper |-> EmptyMap, room_mapper |-> EmptyMap,
               element_handlers |-> EmptyMap]
    /\ pos = 0
    /\ open = <<>>
    /\ out = <<>>
    /\ extPc = "idle"
    /\ calls = <<>>
    /\ emitted = <<>>

-----------------------------------------------------------------------------
(* matrix.rs: mxc_to_url, over http::uri::Uri *)

\* A Uri is a record of its scheme, its authority (both Option) and the
\* text of its path; texts are sequences of characters.
MxcScheme == <<"m", "x", "c">>
HttpsScheme == <<"h", "t", "t", "p", "s">>
SchemeSeparator == <<":", "/", "/">>

\* the characters a scheme can be made of, of those the texts below use
SchemeChars == {"a", "c", "d", "e", "h", "i", "j", "l", "m", "n", "o", "p",
                "r", "s", "t", "w", "x", "0"}

\* Scheme2::parse: the position of the ":" that ends the scheme, 0 when the
\* text starts with no scheme
RECURSIVE ScanScheme(_, _)
ScanScheme(text, i) ==
    IF i > Len(text) THEN 0
    ELSE IF text[i] = ":"
         THEN IF Len(text) >= i + 2 /\ text[i + 1] = "/" /\ text[i + 2] = "/"
              THEN i ELSE 0
    ELSE IF text[i] \in SchemeChars THEN ScanScheme(text, i + 1)
    ELSE 0

\* Authority::parse: the number of characters before the first of / ? #
RECURSIVE ScanAuthority(_, _)
ScanAuthority(text, i) ==
    IF i > Len(text) \/ text[i] \in {"/", "?", "#"} THEN i - 1
    ELSE ScanAuthority(text, i + 1)

NewUri(scheme, authority, path_and_query) ==
    [scheme |-> scheme, authority |-> authority, path_and_query |-> path_and_query]

\* str::parse::<Uri>: None stands for Err(InvalidUri)
ParseUri(text) ==
    IF text = <<>> THEN None
    ELSE IF text[1] = "/" \/ text = <<"*">> THEN Some(NewUri(None, None, text))
    ELSE LET scheme_end == ScanScheme(text, 1)
             rest == IF scheme_end = 0 THEN text
                     ELSE SubSeq(text, scheme_end + 3, Len(text))
             authority_end == ScanAuthority(rest, 1)
             authority == SubSeq(rest, 1, authority_end)
         IN  IF scheme_end = 0
             THEN IF authority_end # Len(rest) THEN None
                  ELSE Some(NewUri(None, Some(authority), <<>>))
             ELSE IF authority_end = 0 THEN None
             ELSE Some(NewUri(Some(SubSeq(text, 1, scheme_end - 1)),
                              Some(authority),
                              SubSeq(rest, authority_end + 1, Len(rest))))

SchemeStr(uri) == uri.scheme
Host(uri) == uri.authority

\* Uri::path: "/" for the empty path of a Uri with a scheme, "" for that of
\* a Uri without
Path(uri) ==
    IF uri.path_and_query # <<>> THEN uri.path_and_query
    ELSE IF uri.scheme # None THEN <<"/">>
    ELSE <<>>

\* impl Display for Uri
UriDisplay(uri) ==
    (IF uri.scheme # None THEN Unwrap(uri.scheme) \o SchemeSeparator ELSE <<>>)
        \o (IF uri.authority # None THEN Unwrap(uri.authority) ELSE <<>>)
        \o Path(uri)

\* the texts the Uris of the model are parsed from
UriTexts ==
    {scheme \o authority \o path :
        scheme \in {<<>>, MxcScheme \o SchemeSeparator, HttpsScheme \o SchemeSeparator},
        authority \in {<<>>, <<"s">>, <<"t">>},
        path \in {<<>>, <<"/">>, <<"/", "i">>, <<"/", "i", "/", "j">>}}
      \cup {<<"*">>}

Uris == {Unwrap(ParseUri(text)) : text \in {t \in UriTexts : ParseUri(t) # None}}

Ok(url) == [ok |-> Some(url), err |-> ""]
Err(e) == [ok |-> None, err |-> e]
NoResult == [ok |-> None, err |-> ""]

DownloadPath ==
    <<"_", "m", "a", "t", "r", "i", "x", "/", "m", "e", "d", "i", "a", "/",
      "r", "0", "/", "d", "o", "w", "n", "l", "o", "a", "d", "/">>

\* the format! of mxc_to_url
FormatDownload(homeserver, server_name, id) ==
    UriDisplay(homeserver) \o DownloadPath \o server_name \o <<"/">> \o id

\* mxc_to_url panics: scheme_str().unwrap() on a Uri without a scheme, or
\* path()[1..] on an empty path
MxcToUrlAborts(mxc) ==
    IF SchemeStr(mxc) = None THEN TRUE
    ELSE /\ Unwrap(SchemeStr(mxc)) = MxcScheme
         /\ Host(mxc) # None
         /\ Len(Path(mxc)) < 1

\* the value mxc_to_url returns when it does not panic
MxcToUrlResult(homeserver, mxc) ==
    IF Unwrap(SchemeStr(mxc)) # MxcScheme THEN Err("NonMxc")
    ELSE IF Host(mxc) = None THEN Err("InvalidMxc")
    ELSE LET server_name == Unwrap(Host(mxc))
             id == Tail(Path(mxc))
             res == FormatDownload(homeserver, server_name, id)
         IN  IF ParseUri(res) = None THEN Err("UriParseError")
             ELSE Ok(Unwrap(ParseUri(res)))

UrlInit ==
    /\ homeserver_url \in Uris
    /\ mxc_uri \in Uris
    /\ mxcRes = NoResult
    /\ mxcPc = "start"

MxcToUrl ==
    /\ mxcPc = "start"
    /\ ~MxcToUrlAborts(mxc_uri)
    /\ mxcRes' = MxcToUrlResult(homeserver_url, mxc_uri)
    /\ mxcPc' = "done"
    /\ UNCHANGED <<homeserver_url, mxc_uri>>

MxcToUrlPanics ==
    /\ mxcPc = "start"
    /\ MxcToUrlAborts(mxc_uri)
    /\ mxcPc' = "panicked"
    /\ UNCHANGED <<homeserver_url, mxc_uri, mxcRes>>

\* mxc_to_url is not running
UrlIdle ==
    /\ homeserver_url = NewUri(None, None, <<"/">>)
    /\ mxc_uri = NewUri(None, None, <<"/">>)
    /\ mxcRes = NoResult
    /\ mxcPc = "idle"

-----------------------------------------------------------------------------
(* The specifications *)

Init == DictInit /\ MxIdle /\ ExtIdle /\ UrlIdle
Next ==
    \/ \E item \in Records : Insert(item) /\ UNCHANGED <<mxVars, extVars, urlVars>>
    \/ \E identifier \in MappingIds :
          RemoveAbsent(identifier) /\ UNCHANGED <<mxVars, extVars, urlVars>>
    \/ \E identifier \in MappingIds :
          RemovePresent(identifier) /\ UNCHANGED <<mxVars, extVars, urlVars>>
    \/ \E identifier \in MappingIds :
          RemovePanics(identifier) /\ UNCHANGED <<mxVars, extVars, urlVars>>
Spec == Init /\ [][Next]_vars

InitToMatrix == MxInit /\ DictInit /\ ExtIdle /\ UrlIdle
NextToMatrix ==
    \/ \E order \in Orders(DOMAIN mxMap) :
          BuildRegex(order) /\ UNCHANGED <<dictVars, extVars, urlVars>>
    \/ ConvertCapture /\ UNCHANGED <<dictVars, extVars, urlVars>>
    \/ ConvertReturn /\ UNCHANGED <<dictVars, extVars, urlVars>>
SpecToMatrix == InitToMatrix /\ [][NextToMatrix]_vars

InitToExternal == ExtInit /\ DictInit /\ MxIdle /\ UrlIdle
NextToExternal ==
    \/ OnStartTag /\ UNCHANGED <<dictVars, mxVars, urlVars>>
    \/ OnStartTagPanics /\ UNCHANGED <<dictVars, mxVars, urlVars>>
    \/ OnEndTag /\ UNCHANGED <<dictVars, mxVars, urlVars>>
    \/ OnText /\ UNCHANGED <<dictVars, mxVars, urlVars>>
    \/ OnComment /\ UNCHANGED <<dictVars, mxVars, urlVars>>
    \/ ExtReturn /\ UNCHANGED <<dictVars, mxVars, urlVars>>
SpecToExternal == InitToExternal /\ [][NextToExternal]_vars

InitMxc == UrlInit /\ DictInit /\ MxIdle /\ ExtIdle
NextMxc ==
    \/ MxcToUrl /\ UNCHANGED <<dictVars, mxVars, extVars>>
    \/ MxcToUrlPanics /\ UNCHANGED <<dictVars, mxVars, extVars>>
SpecMxc == InitMxc /\ [][NextMxc]_vars

-----------------------------------------------------------------------------
(* Claims about MappingDict, under Spec *)

\* C1: after collision-free inserts and removes, every live record is returned
\* by get when queried with its Matrix identifier and with its external
\* identifier.
C1_LiveRecordsReachable ==
    (collisionFree /\ ~dictPanicked) =>
        \A i \in 1..Len(live) :
            /\ Get(Matrix(live[i].m)) = Some(live[i])
            /\ Get(External(live[i].e)) = Some(live[i])

\* C2: in a collision-free history, remove(id) with an identifier of a live
\* record r returns r itself, and afterwards has() is false for both of r's
\* identifiers.
C2_RemoveReturnsItsRecord ==
    (collisionFree /\ ~dictPanicked /\ lastOp.op = "remove" /\ lastOp.target # None) =>
        /\ lastOp.ret = lastOp.target
        /\ ~Has(Matrix(Unwrap(lastOp.target).m))
        /\ ~Has(External(Unwrap(lastOp.target).e))

\* C3: iter() yields exactly the records inserted and not since removed
\* through one of their own identifiers, each once, in insertion order. (The
\* formula reads it on the collision-free histories, where the record an
\* identifier stands for is never in doubt.)
C3_IterYieldsLiveInOrder ==
    (collisionFree /\ ~dictPanicked) => Iter = live

\* C4: for every identifier, has(id) is true iff get(id) returns a record, and
\* a record returned by get(id) carries id as its identifier of that kind.
C4_HasIffGetAndCarries ==
    ~dictPanicked =>
        \A id \in MappingIds :
            /\ Has(id) <=> (Get(id) # None)
            /\ Get(id) # None => Carries(Unwrap(Get(id)), id)

-----------------------------------------------------------------------------
(* Claims about to_matrix, under SpecToMatrix *)

\* The text of C5: the input with every match of the pattern, found on the
\* input left to right from offset `from` on, replaced by its anchor and
\* everything else copied.
RECURSIVE Rewritten(_, _, _, _)
Rewritten(text, alts, map, from) ==
    LET found == FindAt(text, alts, from)
    IN  IF found = None THEN SubSeq(text, from + 1, Len(text))
        ELSE LET m == Unwrap(found)
                 name == MatchBytes(text, m)
             IN  SubSeq(text, from + 1, m.start)
                     \o FormatAnchor(ToUrlString(map[name]), name)
                     \o Rewritten(text, alts, map, m.end)

\* C5: with a pattern built from the same (non-empty) name table, convert
\* returns the input with every match of the pattern on the input, left to
\* right and non-overlapping, replaced by <a href="URL">name</a>, and every
\* character outside the matches kept in order; it does so without panicking.
C5_ConvertReplacesEveryMatch ==
    DOMAIN mxMap # {} =>
        /\ mxPc # "panicked"
        /\ mxPc = "done" => s = Rewritten(s_cloned, Unwrap(regex), mxMap, 0)

\* C5: three matches replaced, by anchors of two lengths
C5_Witness ==
    /\ mxPc = "done"
    /\ nCaptures = 3
    /\ s_cloned = <<"a", " ", "b", " ", "a">>
    /\ mxMap = (<<"a">> :> UserItem @@ <<"b">> :> EventItem)

-----------------------------------------------------------------------------
(* Claims about to_external, under SpecToExternal *)

\* the position of the end tag that closes the start tag at position i
RECURSIVE CloseOf(_, _)
CloseOf(k, depth) ==
    IF html[k].type = "end"
    THEN IF depth = 0 THEN k ELSE CloseOf(k + 1, depth - 1)
    ELSE IF html[k].type = "start" THEN CloseOf(k + 1, depth + 1)
    ELSE CloseOf(k + 1, depth)
MatchingEnd(i) == CloseOf(i + 1, 0)

\* the text tokens that are children of the element opened at position i
TextChildren(i) ==
    {k \in (i + 1)..(MatchingEnd(i) - 1) :
        /\ html[k].type = "text"
        /\ \A o \in (i + 1)..(k - 1) : html[o].type = "start" => MatchingEnd(o) < k}

Consumed == 1..Len(emitted)
NoAnchorHandler == "a" \notin DOMAIN info.element_handlers
IsAnchor(i) == html[i].type = "start" /\ html[i].tag = "a"

\* what follows https://matrix.to/#/ in the href of the anchor at i; the empty
\* text if the anchor has no such href
MentionOf(i) ==
    IF html[i].href = None \/ StripPrefix(Unwrap(html[i].href)) = None THEN <<>>
    ELSE Unwrap(StripPrefix(Unwrap(html[i].href)))

\* the resolver the sigil of a mention selects, with its sigil
ResolverOf(mention) ==
    IF mention[1] = "@" THEN info.user_mapper ELSE info.room_mapper

\* the anchor at i mentions a valid user id or room alias
ValidMention(i) ==
    /\ IsAnchor(i)
    /\ MentionOf(i) # <<>>
    /\ \/ ParsesAsId(MentionOf(i), "@")
       \/ ParsesAsId(MentionOf(i), "#")

\* ... for which the resolver returns a display string
ResolvedMention(i) == ValidMention(i) /\ MentionOf(i) \in DOMAIN ResolverOf(MentionOf(i))
Display(i) == ResolverOf(MentionOf(i))[MentionOf(i)]

\* the anchor at i has no href, or an href that is no mention under @ or #,
\* or mentions a valid identifier its resolver returns nothing for
PlainAnchor(i) ==
    /\ IsAnchor(i)
    /\ \/ MentionOf(i) = <<>>
       \/ MentionOf(i)[1] \notin {"@", "#"}
       \/ ValidMention(i) /\ MentionOf(i) \notin DOMAIN ResolverOf(MentionOf(i))

\* C6: with no custom handler for a, an anchor whose href mentions a valid
\* user id or room alias that its resolver returns a display string for is
\* written as exactly that string: nothing else is written for its start tag,
\* its content or its end tag.
C6_MentionReplacedByDisplay ==
    NoAnchorHandler =>
        \A i \in Consumed :
            (ResolvedMention(i) /\ emitted[i].on) =>
                /\ emitted[i].text = Display(i)
                /\ \A k \in (i + 1)..MatchingEnd(i) :
                      k \in Consumed => emitted[k].text = <<>>

\* C6: a resolved mention with content has been converted, end tag included
C6_Witness ==
    /\ extPc = "done"
    /\ NoAnchorHandler
    /\ \E i \in Consumed :
          /\ ResolvedMention(i) /\ emitted[i].on
          /\ TextChildren(i) # {}
          /\ out = Display(i)

\* C7: with no custom handler for a, an anchor that has no href, or whose href
\* is no mention under @ or #, or whose resolver returns nothing, is
\* unwrapped: its tags are not written and its text is; "[" is written in
\* place of the start tag and "](href)" in place of the end tag iff the anchor
\* has an href.
C7_PlainAnchorUnwrapped ==
    NoAnchorHandler =>
        \A i \in Consumed :
            (PlainAnchor(i) /\ emitted[i].on) =>
                /\ emitted[i].text = IF html[i].href = None THEN <<>> ELSE <<"[">>
                /\ MatchingEnd(i) \in Consumed =>
                      emitted[MatchingEnd(i)] =
                          [on |-> TRUE,
                           text |-> IF html[i].href = None THEN <<>>
                                    ELSE <<"](">> \o Unwrap(html[i].href) \o <<")">>]
                /\ \A k \in TextChildren(i) :
                      k \in Consumed => emitted[k] = [on |-> TRUE, text |-> html[k].text]

\* C7: an anchor with text whose resolver returns nothing for the valid
\* identifier of its href has been converted, and written as [text](href)
C7_Witness ==
    /\ extPc = "done"
    /\ NoAnchorHandler
    /\ \E i \in Consumed :
          /\ PlainAnchor(i) /\ ValidMention(i) /\ emitted[i].on
          /\ TextChildren(i) = {i + 1}
          /\ out = <<"[">> \o html[i + 1].text \o <<"](">> \o Unwrap(html[i].href) \o <<")">>

IsPrefix(p, t) == Len(p) <= Len(t) /\ SubSeq(t, 1, Len(p)) = p

\* C8: with a custom handler registered for a, no resolver is called and no
\* anchor is written as the display string of a mention.
C8_AnchorHandlerAloneGoverns ==
    ~NoAnchorHandler =>
        /\ \A c \in 1..Len(calls) : calls[c].fn = "handler"
        /\ \A i \in Consumed :
              ResolvedMention(i) => ~IsPrefix(Display(i), emitted[i].text)

\* C9: convert does not abort on an anchor whose mention does not parse.
C9_MalformedMentionDoesNotAbort == extPc # "panicked"

\* the input holds only text and elements, none of them an anchor, that no
\* custom handler is registered for
OnlyUnhandledTags ==
    \A k \in 1..Len(html) :
        /\ html[k].type # "comment"
        /\ html[k].type = "start" =>
              html[k].tag # "a" /\ html[k].tag \notin DOMAIN info.element_handlers

RECURSIVE TextContent(_)
TextContent(tokens) ==
    IF tokens = <<>> THEN <<>>
    ELSE (IF Head(tokens).type = "text" THEN Head(tokens).text ELSE <<>>)
             \o TextContent(Tail(tokens))

\* C10: an element that is no anchor and has no custom handler is unwrapped:
\* nothing is written for its start tag or its end tag, and its text is
\* written where it stands; input of only such elements and text is converted
\* to its text content.
C10_UnhandledElementUnwrapped ==
    /\ \A i \in Consumed :
          (/\ html[i].type = "start"
           /\ html[i].tag # "a"
           /\ html[i].tag \notin DOMAIN info.element_handlers) =>
              /\ emitted[i].text = <<>>
              /\ MatchingEnd(i) \in Consumed => emitted[MatchingEnd(i)].text = <<>>
              /\ \A k \in TextChildren(i) :
                    (k \in Consumed /\ emitted[i].on) =>
                        emitted[k] = [on |-> TRUE, text |-> html[k].text]
    /\ (extPc = "done" /\ OnlyUnhandledTags) => out = TextContent(html)

\* C10: nested elements without handlers, with text inside and after them,
\* have been converted
C10_Witness ==
    /\ extPc = "done"
    /\ OnlyUnhandledTags
    /\ \E i \in Consumed :
          /\ html[i].type = "start"
          /\ TextChildren(i) # {}
          /\ MatchingEnd(i) < Len(html)
          /\ html[Len(html)].type = "text"
    /\ out # <<>>

-----------------------------------------------------------------------------
(* Further claims about MappingDict, under Spec *)

\* the records that were live before the insert the last call made
LiveBeforeInsert == SubSeq(live, 1, Len(live) - 1)

\* the identifier of r that the record item does not carry, when r and item
\* share exactly one identifier
SharesOnlyMatrix(r, item) == r.m = item.m /\ r.e # item.e
SharesOnlyExternal(r, item) == r.e = item.e /\ r.m # item.m
IsYielded(r, recs) == \E j \in 1..Len(recs) : recs[j] = r

\* C14 as stated: after an insert whose Matrix (respectively external)
\* identifier equals that of a live record r, get on the colliding identifier
\* returns the new record, r is yielded by iter() and get on the other
\* identifier of r returns r.
C14_CollidingInsertAsStated ==
    (lastOp.op = "insert" /\ ~dictPanicked) =>
        \A k \in 1..Len(LiveBeforeInsert) :
            LET r == LiveBeforeInsert[k]
                item == lastOp.item
            IN  /\ SharesOnlyMatrix(r, item) =>
                      /\ Get(Matrix(item.m)) = Some(item)
                      /\ IsYielded(r, Iter)
                      /\ Get(External(r.e)) = Some(r)
                /\ SharesOnlyExternal(r, item) =>
                      /\ Get(External(item.e)) = Some(item)
                      /\ IsYielded(r, Iter)
                      /\ Get(Matrix(r.m)) = Some(r)

\* C14: an insert whose Matrix (respectively external) identifier equals that
\* of a live record r never fails and redirects only the colliding
\* identifier: afterwards get on the colliding identifier returns the new
\* record, and r is yielded by iter() and returned by get on its other
\* identifier whenever it was before the insert.
C14_InsertRedirectsOnlyColliding ==
    [][\A item \in Records :
          (lastOp' = [op |-> "insert", item |-> item] /\ nInserts' = nInserts + 1) =>
              /\ ~dictPanicked'
              /\ \A k \in 1..Len(live) :
                    LET r == live[k]
                    IN  /\ SharesOnlyMatrix(r, item) =>
                              /\ Get(Matrix(item.m))' = Some(item)
                              /\ IsYielded(r, Iter) => IsYielded(r, Iter')
                              /\ Get(External(r.e)) = Some(r) =>
                                    Get(External(r.e))' = Some(r)
                        /\ SharesOnlyExternal(r, item) =>
                              /\ Get(External(item.e))' = Some(item)
                              /\ IsYielded(r, Iter) => IsYielded(r, Iter')
                              /\ Get(Matrix(r.m)) = Some(r) =>
                                    Get(Matrix(r.m))' = Some(r)
      ]_vars

\* C14: a record has just been inserted whose Matrix identifier is that of a
\* live record r; it is returned for that identifier, r for its external one
C14_Witness ==
    /\ lastOp.op = "insert"
    /\ \E k \in 1..Len(LiveBeforeInsert) :
          LET r == LiveBeforeInsert[k]
          IN  /\ SharesOnlyMatrix(r, lastOp.item)
              /\ Get(Matrix(r.m)) = Some(lastOp.item)
              /\ Get(External(r.e)) = Some(r)
              /\ IsYielded(r, Iter)

\* C15: no sequence of insert, get, has, iter and remove calls makes a call
\* panic; remove panics only where has is true of its identifier, so this is
\* also that remove returns a value wherever has is true.
C15_NoCallPanics == ~dictPanicked

-----------------------------------------------------------------------------
(* Further claims about to_external and to_matrix *)

\* C11: every comment of the input, wherever it stands, is absent from the
\* output: nothing is written for any comment token.
C11_CommentsRemoved ==
    \A k \in Consumed : html[k].type = "comment" => emitted[k].text = <<>>

\* C12: for a fixed text and a fixed name table the output of build_regex
\* followed by convert does not depend on the iteration order of the table:
\* the buffer convert returns equals the rewriting of the input under every
\* order in which the names can be iterated.
C12_OutputIndependentOfOrder ==
    (mxPc = "done" /\ DOMAIN mxMap # {}) =>
        \A order \in Orders(DOMAIN mxMap) :
            s = Rewritten(s_cloned, BuildAlternatives(order), mxMap, 0)

-----------------------------------------------------------------------------
(* Claims about mxc_to_url, under SpecMxc *)

\* C13: mxc_to_url never aborts; it returns the download URL
\* <homeserver_url>_matrix/media/r0/download/<server>/<mediaId> or one of
\* the errors NonMxc, InvalidMxc, UriParseError, and it returns NonMxc for
\* every content URI whose scheme is not mxc, one without a scheme included.
C13_MxcToUrlNeverAborts ==
    /\ mxcPc # "panicked"
    /\ mxcPc = "done" =>
          /\ mxcRes.ok = None => mxcRes.err \in {"NonMxc", "InvalidMxc", "UriParseError"}
          /\ mxcRes.ok # None =>
                UriDisplay(Unwrap(mxcRes.ok)) =
                    UriDisplay(homeserver_url) \o DownloadPath
                        \o Unwrap(Host(mxc_uri)) \o <<"/">> \o Tail(Path(mxc_uri))
          /\ SchemeStr(mxc_uri) # Some(MxcScheme) => mxcRes = Err("NonMxc")

\* C16: with a pattern built from an empty name table, convert does not
\* abort and returns the input text unchanged, for every input text.
C16_EmptyTableReturnsInput ==
    DOMAIN mxMap = {} =>
        /\ mxPc # "panicked"
        /\ mxPc = "done" => s = s_cloned

\* the custom handler calls made for the element opened by token i
HandlerCalls(i) == {c \in 1..Len(calls) : calls[c].fn = "handler" /\ calls[c].at = i}

\* C17: a custom handler registered under a tag name is invoked exactly once
\* for each element with that tag, anchors included, and never twice on the
\* same element.
C17_HandlerInvokedOnce ==
    \A i \in Consumed :
        (html[i].type = "start" /\ html[i].tag \in DOMAIN info.element_handlers) =>
            Cardinality(HandlerCalls(i)) = 1

=============================================================================
